---- MODULE Spec2Model ----
(***************************************************************************)
(* Model of kiwi's dracut boot image builder                               *)
(* (kiwi/boot/image/dracut.py, class BootImageDracut).                     *)
(*                                                                         *)
(* Strings are TLA+ strings, python lists are sequences.  Every method of  *)
(* the class is one action; what a method makes visible to its caller      *)
(* (the Command.run calls it issued, the exception it let through) is kept *)
(* in observation variables that each action overwrites.                   *)
(***************************************************************************)
EXTENDS Integers, Sequences, FiniteSets, TLC

VARIABLES
    dracut_options,          \* self.dracut_options
    included_files,          \* self.included_files
    included_files_install,  \* self.included_files_install
    modules,                 \* self.modules
    install_modules,         \* self.install_modules
    omit_modules,            \* self.omit_modules
    omit_install_modules,    \* self.omit_install_modules
    prepared,                \* what self.is_prepared() answers
    initrd_filename,         \* self.initrd_filename
    dracut_tool,             \* the text of <root>/usr/bin/dracut, or None
    config_files,            \* the dracut configuration files on disk
    dot_profile,             \* Profile.dot_profile, a dict in insertion order
    profile_file,            \* the lines the last Profile.create wrote
    lastOp,                  \* the method called last, with its arguments
    command_log,             \* the Command.run calls of the last method call
    events,                  \* the steps the last method call went through
    raised,                  \* the exception the last method call let through
    returned,                \* the value the last method call returned
    warnings,                \* the log.warning lines of the last method call
    file_calls,              \* the include_file calls made so far, in order
    include_calls,           \* the include_module calls made so far, in order
    omit_calls               \* the omit_module calls made so far, in order

\* what the builder's accumulating methods never touch
outside == << config_files, dot_profile, profile_file >>

accumulators ==
    << dracut_options, included_files, included_files_install, modules,
       install_modules, omit_modules, omit_install_modules >>

vars == << dracut_options, included_files, included_files_install, modules,
           install_modules, omit_modules, omit_install_modules, prepared,
           initrd_filename, dracut_tool, config_files, dot_profile,
           profile_file, lastOp, command_log, events, raised, returned,
           warnings, file_calls, include_calls, omit_calls >>

(***************************************************************************)
(* Bounds and input domains                                                *)
(***************************************************************************)
\* configuration calls (include_file, include_module, omit_module) explored
\* when only the configuration methods are called
MaxCalls == 3
\* configuration calls explored together with prepare and create_initrd
MaxSetup == 2
\* number of prepare() calls
MaxPrepare == 1
\* length of the dracut executable's text, in lexemes
MaxTextLen == 6

Files == {"/etc/fstab", "/config.bootoptions"}
Modules == {"network", "kiwi-dump"}

None == "<None>"
NoError == "<no error>"

(***************************************************************************)
(* Python helpers                                                          *)
(***************************************************************************)
\* s in list
In(s, list) == \E i \in 1..Len(list) : list[i] = s

\* ' '.join(list)
RECURSIVE Join(_)
Join(list) ==
    IF list = <<>> THEN ""
    ELSE IF Len(list) = 1 THEN list[1]
    ELSE list[1] \o " " \o Join(Tail(list))

(***************************************************************************)
(* Profile values and the dictionary Profile.__init__ leaves.  A value is  *)
(* a pair <<type, text>>; a dict is the sequence of its <<key, value>>     *)
(* items in insertion order.                                               *)
(***************************************************************************)
PyNone == << "NoneType", "None" >>
PyTrue == << "bool", "True" >>
PyFalse == << "bool", "False" >>
PyStr(text) == << "str", text >>

\* kiwi_iname, kiwi_displayname (the name again when the description has no
\* displayname) and kiwi_delete (' '.join of no packages) of a description
\* that sets nothing else
InitialProfile ==
    << << "kiwi_iname", PyStr("LimeJeOS") >>,
       << "kiwi_displayname", PyStr("LimeJeOS") >>,
       << "kiwi_delete", PyStr("") >> >>

(***************************************************************************)
(* post_init                                                               *)
(***************************************************************************)
InitBuilder ==
    /\ config_files = [path \in {} |-> <<>>]
    /\ dot_profile = InitialProfile
    /\ profile_file = <<>>
    /\ dracut_options = <<>>
    /\ included_files = <<>>
    /\ included_files_install = <<>>
    /\ modules = <<>>
    /\ install_modules = <<>>
    /\ omit_modules = <<>>
    /\ omit_install_modules = <<>>
    /\ prepared = FALSE
    /\ initrd_filename = None
    /\ lastOp = [op |-> "post_init"]
    /\ command_log = <<>>
    /\ events = <<>>
    /\ raised = NoError
    /\ returned = None
    /\ warnings = <<>>
    /\ file_calls = <<>>
    /\ include_calls = <<>>
    /\ omit_calls = <<>>

\* what Path.which('dracut', ...) and open(dracut_tool).read() find in the
\* root tree: no executable, or an executable with this text
NoTool == [found |-> FALSE, text |-> <<>>]

\* a root tree without a dracut executable
Init == InitBuilder /\ dracut_tool = NoTool

\* a method that runs no command, logs no warning, returns and raises nothing
Quiet(op) ==
    /\ lastOp' = op
    /\ command_log' = <<>>
    /\ events' = <<>>
    /\ raised' = NoError
    /\ returned' = None
    /\ warnings' = <<>>

CallsMade == Len(file_calls) + Len(include_calls) + Len(omit_calls)

(***************************************************************************)
(* include_file                                                            *)
(***************************************************************************)
\* faulty variant: a file already in the list is not appended again
AppendInstall_Deduplicates(list, filename) ==
    IF In(filename, list) THEN list ELSE list \o <<"--install", filename>>

\* the list after  list.append('--install'); list.append(filename)
AppendInstall(list, filename) == list \o <<"--install", filename>>

include_file(filename, install_media) ==
    /\ included_files' = AppendInstall(included_files, filename)
    /\ included_files_install' =
           IF install_media
           THEN AppendInstall(included_files_install, filename)
           ELSE included_files_install
    /\ Quiet([op |-> "include_file", arg |-> filename,
              install_media |-> install_media])
    /\ file_calls' = Append(file_calls, << filename, install_media >>)
    /\ UNCHANGED << dracut_options, modules, install_modules, omit_modules,
                    omit_install_modules, prepared, initrd_filename,
                    dracut_tool, outside, include_calls, omit_calls >>

(***************************************************************************)
(* include_module, omit_module: the same if/elif over two lists.  The      *)
(* result is the pair <<install list, standard list>> after the call.      *)
(***************************************************************************)
\* faulty variant: no membership test, the module is always appended
AddModule_NoDedup(module, install_media, install_list, standard_list) ==
    IF install_media
    THEN << Append(install_list, module), standard_list >>
    ELSE << install_list, Append(standard_list, module) >>

AddModule(module, install_media, install_list, standard_list) ==
    IF install_media /\ ~In(module, install_list)
    THEN << Append(install_list, module), standard_list >>
    ELSE IF ~In(module, standard_list)
    THEN << install_list, Append(standard_list, module) >>
    ELSE << install_list, standard_list >>

include_module(module, install_media) ==
    /\ LET after == AddModule(module, install_media, install_modules, modules)
       IN  /\ install_modules' = after[1]
           /\ modules' = after[2]
    /\ Quiet([op |-> "include_module", arg |-> module,
              install_media |-> install_media])
    /\ include_calls' = Append(include_calls, << module, install_media >>)
    /\ UNCHANGED << dracut_options, included_files, included_files_install,
                    omit_modules, omit_install_modules, prepared,
                    initrd_filename, dracut_tool, outside, file_calls,
                    omit_calls >>

omit_module(module, install_media) ==
    /\ LET after == AddModule(module, install_media, omit_install_modules,
                              omit_modules)
       IN  /\ omit_install_modules' = after[1]
           /\ omit_modules' = after[2]
    /\ Quiet([op |-> "omit_module", arg |-> module,
              install_media |-> install_media])
    /\ omit_calls' = Append(omit_calls, << module, install_media >>)
    /\ UNCHANGED << dracut_options, included_files, included_files_install,
                    modules, install_modules, prepared, initrd_filename,
                    dracut_tool, outside, file_calls, include_calls >>

\* one more configuration call, while fewer than bound were made
Configure(bound) ==
    \/ \E f \in Files, im \in BOOLEAN :
           CallsMade < bound /\ include_file(f, im)
    \/ \E m \in Modules, im \in BOOLEAN :
           CallsMade < bound /\ include_module(m, im)
    \/ \E m \in Modules, im \in BOOLEAN :
           CallsMade < bound /\ omit_module(m, im)

NextConfig == Configure(MaxCalls)

\* the configuration methods alone
SpecConfig == Init /\ [][NextConfig]_vars

(***************************************************************************)
(* Collaborators of the builder: the build context, is_prepared, the       *)
(* kernel inspector and the process runner                                 *)
(***************************************************************************)
\* self.boot_root_directory, self.target_dir, self.initrd_base_name
BootRootDirectory == "/build/boot-root"
TargetDir == "/build/target"
InitrdBaseName == "kiwi-image.x86_64-1.0.0.initrd"

\* the version Kernel.get_kernel reports when a kernel is installed
KernelVersion == "5.14.21-default"

\* self.is_prepared()
is_prepared == prepared

\* What the root tree and the external tools do to one create_initrd call:
\* no kernel in the tree, dracut exits non-zero, mv exits non-zero, or
\* every step succeeds.
Outcomes == {"no_kernel", "dracut_fails", "mv_fails", "ok"}

\* Kernel(...).get_kernel(raise_on_not_found=True) raises when no kernel
KernelRaises(outcome) == outcome = "no_kernel"
\* Command.run raises KiwiCommandError when the process exits non-zero
DracutRaises(outcome) == outcome = "dracut_fails"
MvRaises(outcome) == outcome = "mv_fails"

(***************************************************************************)
(* prepare                                                                 *)
(***************************************************************************)
prepare ==
    /\ Len(dracut_options) < 2 * MaxPrepare
    /\ dracut_options' = AppendInstall(dracut_options, "/.profile")
    /\ prepared' = TRUE
    /\ Quiet([op |-> "prepare"])
    /\ UNCHANGED << included_files, included_files_install, modules,
                    install_modules, omit_modules, omit_install_modules,
                    initrd_filename, dracut_tool, outside, file_calls,
                    include_calls, omit_calls >>

(***************************************************************************)
(* create_initrd                                                           *)
(***************************************************************************)
\* faulty variant: the basename argument is ignored
DracutInitrdBasename_IgnoresArgument(basename) == InitrdBaseName \o ".xz"

\* basename if basename else self.initrd_base_name, then += '.xz'
DracutInitrdBasename(basename) ==
    (IF basename # None THEN basename ELSE InitrdBaseName) \o ".xz"

\* [flag, ' {0} '.format(' '.join(list))] if list else []
ModulesArgs(flag, list) ==
    IF list # <<>> THEN << flag, " " \o Join(list) \o " " >> ELSE <<>>

\* faulty variant: the included files are put before the module flags
Options_FilesFirst(install_initrd) ==
    IF install_initrd
    THEN dracut_options \o included_files_install
         \o ModulesArgs("--add", install_modules)
         \o ModulesArgs("--omit", omit_install_modules)
    ELSE dracut_options \o included_files
         \o ModulesArgs("--add", modules)
         \o ModulesArgs("--omit", omit_modules)

\* faulty variant: the standard lists are used for both variants
Options_IgnoresVariant(install_initrd) ==
    dracut_options \o ModulesArgs("--add", modules)
    \o ModulesArgs("--omit", omit_modules)
    \o included_files

\* self.dracut_options + modules_args + omit_modules_args + included_files
Options(install_initrd) ==
    IF install_initrd
    THEN dracut_options \o ModulesArgs("--add", install_modules)
         \o ModulesArgs("--omit", omit_install_modules)
         \o included_files_install
    ELSE dracut_options \o ModulesArgs("--add", modules)
         \o ModulesArgs("--omit", omit_modules)
         \o included_files

\* the argument list of the first Command.run
DracutCommand(basename, install_initrd) ==
    << "chroot", BootRootDirectory, "dracut", "--force", "--no-hostonly",
       "--no-hostonly-cmdline", "--xz" >>
    \o Options(install_initrd)
    \o << DracutInitrdBasename(basename), KernelVersion >>

\* os.sep.join([directory, name])
OsSepJoin(directory, name) == directory \o "/" \o name

\* the argument list of the second Command.run
MvCommand(basename) ==
    << "mv", OsSepJoin(BootRootDirectory, DracutInitrdBasename(basename)),
       TargetDir >>

\* The run of one create_initrd call, statement by statement: the steps
\* reached, the commands handed to Command.run, the exception that ends the
\* call and the value self.initrd_filename has afterwards.

\* faulty variant: self.initrd_filename is assigned although mv failed
RunMv_RecordsAnyway(basename, install_initrd, outcome) ==
    [steps |-> IF MvRaises(outcome)
               THEN << "get_kernel", "dracut", "mv" >>
               ELSE << "get_kernel", "dracut", "mv", "set_initrd_filename" >>,
     commands |-> << DracutCommand(basename, install_initrd),
                     MvCommand(basename) >>,
     error |-> IF MvRaises(outcome) THEN "KiwiCommandError" ELSE NoError,
     filename |-> OsSepJoin(TargetDir, DracutInitrdBasename(basename))]

\* the second Command.run and the assignment of self.initrd_filename
RunMv(basename, install_initrd, outcome) ==
    IF MvRaises(outcome)
    THEN [steps |-> << "get_kernel", "dracut", "mv" >>,
          commands |-> << DracutCommand(basename, install_initrd),
                          MvCommand(basename) >>,
          error |-> "KiwiCommandError", filename |-> initrd_filename]
    ELSE [steps |-> << "get_kernel", "dracut", "mv", "set_initrd_filename" >>,
          commands |-> << DracutCommand(basename, install_initrd),
                          MvCommand(basename) >>,
          error |-> NoError,
          filename |-> OsSepJoin(TargetDir, DracutInitrdBasename(basename))]

\* faulty variant: the exit status of dracut is ignored
RunDracut_IgnoresExit(basename, install_initrd, outcome) ==
    RunMv(basename, install_initrd, outcome)

\* the first Command.run, and what follows it
RunDracut(basename, install_initrd, outcome) ==
    IF DracutRaises(outcome)
    THEN [steps |-> << "get_kernel", "dracut" >>,
          commands |-> << DracutCommand(basename, install_initrd) >>,
          error |-> "KiwiCommandError", filename |-> initrd_filename]
    ELSE RunMv(basename, install_initrd, outcome)

\* the body of  if self.is_prepared():
CreateInitrdBody(basename, install_initrd, outcome) ==
    IF KernelRaises(outcome)
    THEN [steps |-> << "get_kernel" >>, commands |-> <<>>,
          error |-> "KiwiKernelLookupError", filename |-> initrd_filename]
    ELSE RunDracut(basename, install_initrd, outcome)

\* faulty variant: no is_prepared check
CreateInitrdRun_Unguarded(basename, install_initrd, outcome) ==
    CreateInitrdBody(basename, install_initrd, outcome)

CreateInitrdRun(basename, install_initrd, outcome) ==
    IF is_prepared
    THEN CreateInitrdBody(basename, install_initrd, outcome)
    ELSE [steps |-> <<>>, commands |-> <<>>, error |-> NoError,
          filename |-> initrd_filename]

\* faulty variant: the option list is built in place (+= on the alias of
\* self.dracut_options), so the arguments of the call stay in the list
create_initrd_AliasesOptions(basename, install_initrd, outcome) ==
    /\ LET run == CreateInitrdRun(basename, install_initrd, outcome)
       IN  /\ events' = run.steps
           /\ command_log' = run.commands
           /\ raised' = run.error
           /\ initrd_filename' = run.filename
           /\ dracut_options' = IF run.commands = <<>> THEN dracut_options
                                ELSE Options(install_initrd)
    /\ lastOp' = [op |-> "create_initrd", basename |-> basename,
                  install_initrd |-> install_initrd, outcome |-> outcome]
    /\ returned' = None
    /\ warnings' = <<>>
    /\ UNCHANGED << included_files, included_files_install,
                    modules, install_modules, omit_modules,
                    omit_install_modules, prepared, dracut_tool, outside,
                    file_calls, include_calls, omit_calls >>

create_initrd(basename, install_initrd, outcome) ==
    /\ LET run == CreateInitrdRun(basename, install_initrd, outcome)
       IN  /\ events' = run.steps
           /\ command_log' = run.commands
           /\ raised' = run.error
           /\ initrd_filename' = run.filename
    /\ lastOp' = [op |-> "create_initrd", basename |-> basename,
                  install_initrd |-> install_initrd, outcome |-> outcome]
    /\ returned' = None
    /\ warnings' = <<>>
    /\ UNCHANGED << dracut_options, included_files, included_files_install,
                    modules, install_modules, omit_modules,
                    omit_install_modules, prepared, dracut_tool, outside,
                    file_calls, include_calls, omit_calls >>

Basenames == {None, "initrd-test"}

Build ==
    \/ prepare
    \/ \E b \in Basenames, ii \in BOOLEAN, o \in Outcomes :
           create_initrd(b, ii, o)

Next == Configure(MaxSetup) \/ Build

Spec == Init /\ [][Next]_vars

(***************************************************************************)
(* _get_dracut_output_file_format                                          *)
(*                                                                         *)
(* The text of the dracut executable is a sequence of lexemes.  The        *)
(* literal head of the expression, outfile="/boot/init, is the three       *)
(* lexemes  outfile=  "  /boot/init ; no other lexeme holds a piece of it, *)
(* so a match of the expression starts where these three stand in a row.   *)
(***************************************************************************)
Lexemes == {"outfile=", "\"", "/boot/init", "$kernel", "rd-", "\n"}

\* the texts of at most MaxTextLen lexemes
Texts == UNION {[1..n -> Lexemes] : n \in 0..MaxTextLen}

\* the concatenation of the lexemes
RECURSIVE Concat(_)
Concat(lexemes) ==
    IF lexemes = <<>> THEN "" ELSE lexemes[1] \o Concat(Tail(lexemes))

\* '.' matches every character of text[from..to] (none is a newline)
DotStar(text, from, to) == \A j \in from..to : text[j] # "\n"

\* The ends q of the matches of  outfile="/boot/(init.*\$kernel.*)"  that
\* start at i: the head at i, a closing quote at q, $kernel in between and
\* no newline in between.
MatchEnds(text, i) ==
    { q \in (i + 4)..Len(text) :
        /\ text[i] = "outfile=" /\ text[i + 1] = "\"" /\ text[i + 2] = "/boot/init"
        /\ text[q] = "\""
        /\ DotStar(text, i + 3, q - 1)
        /\ \E k \in (i + 3)..(q - 1) : text[k] = "$kernel" }

\* both .* are greedy: the match at i ends at the last possible quote
GreedyEnd(text, i) ==
    CHOOSE q \in MatchEnds(text, i) : \A r \in MatchEnds(text, i) : r <= q

\* re.findall(outfile_expression, text)[0]: the group of the leftmost match,
\* as lexemes after the head; [found |-> FALSE] when findall returns []
FirstMatch(text) ==
    LET starts == { i \in 1..Len(text) : MatchEnds(text, i) # {} }
    IN  IF starts = {} THEN [found |-> FALSE, group |-> <<>>]
        ELSE LET i == CHOOSE s \in starts : \A t \in starts : s <= t
             IN  [found |-> TRUE,
                  group |-> SubSeq(text, i + 3, GreedyEnd(text, i) - 1)]

\* outfile.replace('$kernel', '{kernel_version}'), on the group 'init' + rest
ReplaceKernel(rest) ==
    "init" \o Concat([j \in 1..Len(rest) |->
                        IF rest[j] = "$kernel" THEN "{kernel_version}"
                        ELSE rest[j]])

DefaultOutfileFormat == "initramfs-{kernel_version}.img"

DefaultWarnings ==
    << "Could not detect dracut output file format",
       "Using default initrd file name format " \o DefaultOutfileFormat >>

\* The run of one call for the tool found in the root tree: the value
\* returned, the warnings logged and the exception that ends the call.
DetectRun(tool) ==
    IF tool.found
    THEN IF FirstMatch(tool.text).found
         THEN [value |-> ReplaceKernel(FirstMatch(tool.text).group),
               warned |-> <<>>, error |-> NoError]
         ELSE [value |-> None, warned |-> <<>>, error |-> "IndexError"]
    ELSE [value |-> DefaultOutfileFormat, warned |-> DefaultWarnings,
          error |-> NoError]

get_dracut_output_file_format ==
    /\ LET run == DetectRun(dracut_tool)
       IN  /\ returned' = run.value
           /\ warnings' = run.warned
           /\ raised' = run.error
    /\ lastOp' = [op |-> "_get_dracut_output_file_format"]
    /\ command_log' = <<>>
    /\ events' = <<>>
    /\ UNCHANGED << dracut_options, included_files, included_files_install,
                    modules, install_modules, omit_modules,
                    omit_install_modules, prepared, initrd_filename,
                    dracut_tool, outside, file_calls, include_calls,
                    omit_calls >>

\* any root tree: without the executable, or with one of the texts
InitDetect ==
    /\ InitBuilder
    /\ dracut_tool \in {NoTool} \cup {[found |-> TRUE, text |-> t] : t \in Texts}

\* the output format detector alone
SpecDetect == InitDetect /\ [][get_dracut_output_file_format]_vars

(***************************************************************************)
(* get_boot_names                                                          *)
(***************************************************************************)
\* the name Kernel.get_kernel reports when a kernel is installed
KernelName == "vmlinuz-5.14.21-default"

\* the lexemes of the string the detector returns for the tool
TemplateOf(tool) ==
    IF tool.found
    THEN LET rest == FirstMatch(tool.text).group
         IN  << "init" >> \o [j \in 1..Len(rest) |->
                                IF rest[j] = "$kernel" THEN "{kernel_version}"
                                ELSE rest[j]]
    ELSE << "initramfs-", "{kernel_version}", ".img" >>

\* faulty variant: the template is returned as it is
FormatKernelVersion_Unformatted(template, version) == Concat(template)

\* template.format(kernel_version=version)
FormatKernelVersion(template, version) ==
    Concat([j \in 1..Len(template) |->
              IF template[j] = "{kernel_version}" THEN version
              ELSE template[j]])

\* The run of one call: the steps reached, the namedtuple returned, the
\* warnings logged and the exception that ends the call.  has_kernel says
\* whether Kernel(...).get_kernel() finds a kernel in the root tree.
BootNamesRun(has_kernel) ==
    IF ~has_kernel
    THEN [steps |-> << "get_kernel" >>, value |-> None, warned |-> <<>>,
          error |-> "KiwiDiskBootImageError"]
    ELSE IF DetectRun(dracut_tool).error # NoError
    THEN [steps |-> << "get_kernel", "_get_dracut_output_file_format" >>,
          value |-> None, warned |-> DetectRun(dracut_tool).warned,
          error |-> DetectRun(dracut_tool).error]
    ELSE [steps |-> << "get_kernel", "_get_dracut_output_file_format" >>,
          value |-> [kernel_name |-> KernelName,
                     initrd_name |->
                         FormatKernelVersion(TemplateOf(dracut_tool),
                                             KernelVersion)],
          warned |-> DetectRun(dracut_tool).warned,
          error |-> NoError]

get_boot_names(has_kernel) ==
    /\ LET run == BootNamesRun(has_kernel)
       IN  /\ events' = run.steps
           /\ returned' = run.value
           /\ warnings' = run.warned
           /\ raised' = run.error
    /\ lastOp' = [op |-> "get_boot_names", has_kernel |-> has_kernel]
    /\ command_log' = <<>>
    /\ UNCHANGED << dracut_options, included_files, included_files_install,
                    modules, install_modules, omit_modules,
                    omit_install_modules, prepared, initrd_filename,
                    dracut_tool, outside, file_calls, include_calls,
                    omit_calls >>

\* configuration calls explored together with get_boot_names
MaxBootSetup == 1

\* root trees: no dracut, dracut with  outfile="/boot/initrd-$kernel"  on a
\* line of its own, dracut without the assignment
BootTools ==
    { NoTool,
      [found |-> TRUE,
       text |-> << "rd-", "\n", "outfile=", "\"", "/boot/init", "rd-",
                   "$kernel", "\"", "\n" >>],
      [found |-> TRUE, text |-> << "rd-", "\n" >>] }

InitBoot == InitBuilder /\ dracut_tool \in BootTools

NextBoot ==
    \/ Configure(MaxBootSetup)
    \/ Build
    \/ \E has_kernel \in BOOLEAN : get_boot_names(has_kernel)

\* the builder with get_boot_names, in any of the root trees
SpecBoot == InitBoot /\ [][NextBoot]_vars

(***************************************************************************)
(* write_system_config_file                                                *)
(*                                                                         *)
(* config is a dict: a function from the keys it holds to lists.           *)
(* config_files maps the paths of the files that exist to their lines.     *)
(***************************************************************************)
\* Defaults.get_dracut_conf_name()
DracutConfName == "/etc/dracut.conf.d/02-kiwi.conf"

\* if config.get(key):
Populated(config, key) == key \in DOMAIN config /\ config[key] # <<>>

\* 'add_dracutmodules+=" {0} "\n'.format(' '.join(list)), and the omit line
ConfigLine(directive, list) ==
    directive \o "+=\" " \o Join(list) \o " \"\n"

\* faulty variant: the omit line is put first
DracutConfig_OmitFirst(config) ==
    (IF Populated(config, "omit_modules")
     THEN << ConfigLine("omit_dracutmodules", config["omit_modules"]) >>
     ELSE <<>>)
    \o (IF Populated(config, "modules")
        THEN << ConfigLine("add_dracutmodules", config["modules"]) >>
        ELSE <<>>)

\* the list dracut_config after the two if statements
DracutConfig(config) ==
    (IF Populated(config, "modules")
     THEN << ConfigLine("add_dracutmodules", config["modules"]) >>
     ELSE <<>>)
    \o (IF Populated(config, "omit_modules")
        THEN << ConfigLine("omit_dracutmodules", config["omit_modules"]) >>
        ELSE <<>>)

\* the path written: config_file, or the default under the root tree
ConfigFilePath(config_file) ==
    IF config_file = None THEN BootRootDirectory \o DracutConfName
    ELSE config_file

\* the files after  with open(path, 'w') as f: f.writelines(lines)
Written(files, path, lines) ==
    [p \in DOMAIN files \cup {path} |-> IF p = path THEN lines ELSE files[p]]

write_system_config_file(config, config_file) ==
    /\ IF DracutConfig(config) # <<>>
       THEN /\ config_files' = Written(config_files, ConfigFilePath(config_file),
                                       DracutConfig(config))
            /\ events' = << "open", "writelines" >>
       ELSE /\ config_files' = config_files
            /\ events' = <<>>
    /\ lastOp' = [op |-> "write_system_config_file", config |-> config,
                  config_file |-> config_file]
    /\ command_log' = <<>>
    /\ raised' = NoError
    /\ returned' = None
    /\ warnings' = <<>>
    /\ UNCHANGED << dracut_options, included_files, included_files_install,
                    modules, install_modules, omit_modules,
                    omit_install_modules, prepared, initrd_filename,
                    dracut_tool, dot_profile, profile_file, file_calls,
                    include_calls, omit_calls >>

\* number of modules in a list of config
MaxConfigModules == 2

ConfigModules == << "network", "kiwi-dump", "kiwi-overlay", "kiwi-repart" >>

\* the lists config holds: the first n of ConfigModules
ConfigLists == { SubSeq(ConfigModules, 1, n) : n \in 0..MaxConfigModules }

\* the dicts with some of the keys modules and omit_modules
Configs ==
    UNION { [keys -> ConfigLists] : keys \in SUBSET {"modules", "omit_modules"} }

ConfigFileArgs == {None, "/tmp/kiwi-dracut.conf"}

NextWrite ==
    \/ prepare
    \/ \E config \in Configs, config_file \in ConfigFileArgs :
           write_system_config_file(config, config_file)

\* writing configuration files, before or after prepare
SpecWrite == Init /\ [][NextWrite]_vars

(***************************************************************************)
(* Profile: dot_profile is the dictionary, as the sequence of its          *)
(* <<key, value>> items in insertion order                                 *)
(***************************************************************************)
\* the keys used, in ascending order of their text
ProfileKeys == << "kiwi_delete", "kiwi_displayname", "kiwi_iname" >>

\* the values used: a text, the empty text, None, True and False
ProfileValues == { PyStr("LimeJeOS"), PyStr(""), PyNone, PyTrue, PyFalse }

Keys == { ProfileKeys[i] : i \in 1..Len(ProfileKeys) }

KeyRank(key) == CHOOSE i \in 1..Len(ProfileKeys) : ProfileKeys[i] = key

\* key in self.dot_profile
HasKey(items, key) == \E i \in 1..Len(items) : items[i][1] = key

\* self.dot_profile[key] = value: a key of the dictionary keeps its place
SetItem(items, key, value) ==
    IF HasKey(items, key)
    THEN [i \in 1..Len(items) |->
            IF items[i][1] = key THEN << key, value >> ELSE items[i]]
    ELSE Append(items, << key, value >>)

\* del self.dot_profile[key]
DelItem(items, key) == SelectSeq(items, LAMBDA item : item[1] # key)

\* the item put at its place in a list sorted by key
RECURSIVE InsertSorted(_, _)
InsertSorted(sorted, item) ==
    IF sorted = <<>> THEN << item >>
    ELSE IF KeyRank(item[1]) < KeyRank(Head(sorted)[1])
    THEN << item >> \o sorted
    ELSE << Head(sorted) >> \o InsertSorted(Tail(sorted), item)

\* faulty variant: the items are left in insertion order
Sorted_InsertionOrder(items) == items

\* sorted(self.dot_profile.items())
RECURSIVE Sorted(_)
Sorted(items) ==
    IF items = <<>> THEN <<>>
    ELSE InsertSorted(Sorted(SubSeq(items, 1, Len(items) - 1)),
                      items[Len(items)])

\* if value:
Truthy(value) ==
    IF value[1] = "str" THEN value[2] # "" ELSE value = PyTrue

\* format(value) of the built-in types
BuiltinFormat(value) == value[2]

\* 'true' if value is True, else format(value)
Format(value) == IF value = PyTrue THEN "true" ELSE BuiltinFormat(value)

\* the lines profile.write writes for the items, in their order
RECURSIVE ProfileLines(_)
ProfileLines(items) ==
    IF items = <<>> THEN <<>>
    ELSE (IF Truthy(Head(items)[2])
          THEN << Head(items)[1] \o "=" \o Format(Head(items)[2]) \o "\n" >>
          ELSE <<>>)
         \o ProfileLines(Tail(items))

\* what a Profile method leaves of the builder and of the observations
ProfileCall(op) ==
    /\ lastOp' = op
    /\ command_log' = <<>>
    /\ events' = <<>>
    /\ raised' = NoError
    /\ warnings' = <<>>
    /\ UNCHANGED << dracut_options, included_files, included_files_install,
                    modules, install_modules, omit_modules,
                    omit_install_modules, prepared, initrd_filename,
                    dracut_tool, config_files, file_calls, include_calls,
                    omit_calls >>

add(key, value) ==
    /\ dot_profile' = SetItem(dot_profile, key, value)
    /\ profile_file' = <<>>
    /\ returned' = None
    /\ ProfileCall([op |-> "add", key |-> key, value |-> value])

delete(key) ==
    /\ dot_profile' = IF HasKey(dot_profile, key)
                      THEN DelItem(dot_profile, key)
                      ELSE dot_profile
    /\ profile_file' = <<>>
    /\ returned' = None
    /\ ProfileCall([op |-> "delete", key |-> key])

\* profile_file is what the call wrote to its temporary file; the value
\* returned is Shell.quote_key_value_file of that file
create ==
    /\ profile_file' = ProfileLines(Sorted(dot_profile))
    /\ returned' = [quote_key_value_file |-> profile_file']
    /\ dot_profile' = dot_profile
    /\ ProfileCall([op |-> "create"])

NextProfile ==
    \/ \E key \in Keys, value \in ProfileValues :
           add(key, value)
    \/ \E key \in Keys : delete(key)
    \/ create

\* the methods of Profile alone
SpecProfile == Init /\ [][NextProfile]_vars

(***************************************************************************)
(* Properties of create_initrd                                             *)
(***************************************************************************)
\* the step taken is a create_initrd call
CreateStep == lastOp'.op = "create_initrd"

\* the state is the one a create_initrd call left
AfterCreate == lastOp.op = "create_initrd"

IsDracutCall(command) ==
    Len(command) >= 3 /\ command[1] = "chroot" /\ command[3] = "dracut"

IsMvCall(command) == Len(command) >= 1 /\ command[1] = "mv"

\* how many commands of the log satisfy Is
Count(log, Is(_)) == Cardinality({ i \in 1..Len(log) : Is(log[i]) })

\* C1: a create_initrd call on a builder that is not prepared runs no
\* command (and looks up no kernel), leaves initrd_filename unset, raises
\* nothing and leaves the seven accumulator lists as they were, whatever
\* configuration calls came before.
C1_UnpreparedCreateIsNoOp ==
    [][ (CreateStep /\ ~is_prepared) =>
            /\ command_log' = <<>>
            /\ events' = <<>>
            /\ initrd_filename' = None
            /\ raised' = NoError
            /\ accumulators' = accumulators ]_vars

C1_Witness ==
    /\ AfterCreate /\ ~is_prepared
    /\ included_files # <<>> /\ modules # <<>>
    /\ command_log = <<>> /\ initrd_filename = None

\* ' a b ': every name with a space before it, and a space at the end
RECURSIVE SpaceBefore(_)
SpaceBefore(names) ==
    IF names = <<>> THEN "" ELSE " " \o Head(names) \o SpaceBefore(Tail(names))

\* the flag with its one value token, or nothing for an empty set
FlagOf(flag, names) ==
    IF Len(names) = 0 THEN <<>> ELSE << flag, SpaceBefore(names) \o " " >>

\* C2: on a prepared builder with a kernel, create_initrd issues as its
\* first command exactly chroot <root> dracut --force --no-hostonly
\* --no-hostonly-cmdline --xz, dracut_options, --add with the add-set's
\* names space-joined in insertion order, --omit likewise, the --install
\* pairs of the included files, <basename>.xz and the kernel version; --add
\* and --omit are in the command exactly when their active set is not empty.
C2_CommandIsExact ==
    (AfterCreate /\ is_prepared /\ lastOp.outcome # "no_kernel") =>
        LET added == IF lastOp.install_initrd THEN install_modules
                     ELSE modules
            omitted == IF lastOp.install_initrd THEN omit_install_modules
                       ELSE omit_modules
            files == IF lastOp.install_initrd THEN included_files_install
                     ELSE included_files
            name == IF lastOp.basename = None THEN InitrdBaseName
                    ELSE lastOp.basename
        IN  /\ Len(command_log) >= 1
            /\ command_log[1] =
                   << "chroot", BootRootDirectory, "dracut", "--force",
                      "--no-hostonly", "--no-hostonly-cmdline", "--xz" >>
                   \o dracut_options \o FlagOf("--add", added)
                   \o FlagOf("--omit", omitted) \o files
                   \o << name \o ".xz", KernelVersion >>
            /\ In("--add", command_log[1]) <=> added # <<>>
            /\ In("--omit", command_log[1]) <=> omitted # <<>>

C2_Witness ==
    /\ AfterCreate /\ is_prepared /\ Len(command_log) >= 1
    /\ In("--add", command_log[1]) /\ In("--omit", command_log[1])
    /\ In(" network kiwi-dump ", command_log[1])
       \/ In(" kiwi-dump ", command_log[1])

\* C3: create_initrd stops at the first failure.  Without a kernel no
\* command is run; when dracut exits non-zero mv is not run; when mv fails
\* the filename is not recorded.  In each case the error reaches the
\* caller, no command is run twice and initrd_filename keeps its value.
C3_FailStop ==
    [][ (CreateStep /\ is_prepared) =>
          /\ lastOp'.outcome = "no_kernel" =>
                /\ command_log' = <<>>
                /\ raised' = "KiwiKernelLookupError"
                /\ initrd_filename' = initrd_filename
          /\ lastOp'.outcome = "dracut_fails" =>
                /\ Count(command_log', IsMvCall) = 0
                /\ Count(command_log', IsDracutCall) = 1
                /\ raised' = "KiwiCommandError"
                /\ initrd_filename' = initrd_filename
          /\ lastOp'.outcome = "mv_fails" =>
                /\ Count(command_log', IsMvCall) = 1
                /\ Count(command_log', IsDracutCall) = 1
                /\ ~In("set_initrd_filename", events')
                /\ raised' = "KiwiCommandError"
                /\ initrd_filename' = initrd_filename ]_vars

C3_Witness ==
    /\ AfterCreate /\ is_prepared /\ lastOp.outcome = "mv_fails"
    /\ lastOp.basename = None
    /\ raised = "KiwiCommandError"
    /\ initrd_filename = "/build/target/initrd-test.xz"

\* C4: initrd_filename is unset at first and is only ever assigned by a
\* create_initrd call on a prepared builder in which the kernel lookup, the
\* dracut command and the mv of <root>/<basename>.xz into the target
\* directory all succeeded, in that order, before the assignment; every
\* create_initrd call in which all three succeed goes through these steps.
C4_RecordedOnlyAfterMv ==
    /\ initrd_filename = None
    /\ [][ /\ (initrd_filename' # initrd_filename
               \/ In("set_initrd_filename", events'))
              => /\ CreateStep /\ is_prepared /\ lastOp'.outcome = "ok"
                 /\ raised' = NoError
           /\ (CreateStep /\ is_prepared /\ lastOp'.outcome = "ok")
              => /\ events' = << "get_kernel", "dracut", "mv",
                                 "set_initrd_filename" >>
                 /\ Len(command_log') = 2
                 /\ IsDracutCall(command_log'[1])
                 /\ command_log'[2] =
                      << "mv",
                         BootRootDirectory \o "/"
                           \o command_log'[1][Len(command_log'[1]) - 1],
                         TargetDir >>
                 /\ initrd_filename' # None ]_vars

C4_Witness ==
    /\ AfterCreate /\ lastOp.outcome = "ok" /\ lastOp.basename = "initrd-test"
    /\ Len(command_log) = 2
    /\ In(" network ", command_log[1])
    /\ command_log[2] =
           << "mv", "/build/boot-root/initrd-test.xz", "/build/target" >>
    /\ initrd_filename = "/build/target/initrd-test.xz"

\* C8: in a successful create_initrd the base name is the basename argument
\* when one is given and the configured default otherwise, with one '.xz'
\* appended; the file moved is <root>/<basename>.xz and the recorded
\* filename is <target_directory>/<basename>.xz.
C8_BasenameResolution ==
    (AfterCreate /\ is_prepared /\ lastOp.outcome = "ok") =>
        LET name == IF lastOp.basename = None
                    THEN "kiwi-image.x86_64-1.0.0.initrd.xz"
                    ELSE lastOp.basename \o ".xz"
            dracut == command_log[1]
        IN  /\ dracut[Len(dracut) - 1] = name
            /\ command_log[2] =
                   << "mv", BootRootDirectory \o "/" \o name, TargetDir >>
            /\ initrd_filename = TargetDir \o "/" \o name

C8_Witness ==
    /\ AfterCreate /\ lastOp.outcome = "ok" /\ lastOp.basename = None
    /\ Len(command_log) = 2
    /\ initrd_filename = "/build/target/kiwi-image.x86_64-1.0.0.initrd.xz"
    /\ command_log[2][2] = "/build/boot-root/kiwi-image.x86_64-1.0.0.initrd.xz"

(***************************************************************************)
(* Properties of the configuration methods                                 *)
(***************************************************************************)
\* the names of the calls of a log, and whether a log holds only calls with
\* install_media=False
Names(calls) == [i \in 1..Len(calls) |-> calls[i][1]]
StandardOnly(calls) == \A i \in 1..Len(calls) : ~calls[i][2]

\* names without x
Without(names, x) == SelectSeq(names, LAMBDA y : y # x)

\* every name once, in the order of its first occurrence
RECURSIVE FirstSeen(_)
FirstSeen(names) ==
    IF names = <<>> THEN <<>>
    ELSE << Head(names) >> \o FirstSeen(Without(Tail(names), Head(names)))

\* C5: after include_module calls with install_media=False only, modules
\* holds every included name exactly once, in the order of first inclusion;
\* the same for omit_module and omit_modules.
C5_FirstSeenOrder ==
    /\ StandardOnly(include_calls) =>
           /\ modules = FirstSeen(Names(include_calls))
           /\ \A m \in Modules :
                  Cardinality({ i \in 1..Len(modules) : modules[i] = m })
                      = IF In(m, Names(include_calls)) THEN 1 ELSE 0
    /\ StandardOnly(omit_calls) =>
           /\ omit_modules = FirstSeen(Names(omit_calls))
           /\ \A m \in Modules :
                  Cardinality({ i \in 1..Len(omit_modules) :
                                  omit_modules[i] = m })
                      = IF In(m, Names(omit_calls)) THEN 1 ELSE 0

C5_Witness ==
    /\ include_calls = << << "network", FALSE >>, << "kiwi-dump", FALSE >>,
                          << "network", FALSE >> >>
    /\ modules = << "network", "kiwi-dump" >>

\* the list after inserting module unless it is there
Inserted(list, module) ==
    IF In(module, list) THEN list ELSE Append(list, module)

\* C6: include_module(m, install_media=True) inserts m into install_modules
\* unless it is there and leaves modules unchanged, so that a repeated call
\* changes no module set; the same for omit_module(m, install_media=True)
\* with omit_install_modules and omit_modules.
C6_InstallMediaLeavesStandardSet ==
    [][ /\ (lastOp'.op = "include_module" /\ lastOp'.install_media) =>
               /\ install_modules' = Inserted(install_modules, lastOp'.arg)
               /\ modules' = modules
        /\ (lastOp'.op = "omit_module" /\ lastOp'.install_media) =>
               /\ omit_install_modules' =
                      Inserted(omit_install_modules, lastOp'.arg)
               /\ omit_modules' = omit_modules ]_vars

\* C7: every include_file call appends one '--install', f pair to
\* included_files, the same file again on a repeated call, and appends the
\* pair to included_files_install exactly when install_media is true.
C7_IncludeFileAppendsPair ==
    LET media == SelectSeq(file_calls, LAMBDA c : c[2])
    IN  /\ Len(included_files) = 2 * Len(file_calls)
        /\ \A i \in 1..Len(file_calls) :
               /\ included_files[2 * i - 1] = "--install"
               /\ included_files[2 * i] = file_calls[i][1]
        /\ Len(included_files_install) = 2 * Len(media)
        /\ \A i \in 1..Len(media) :
               /\ included_files_install[2 * i - 1] = "--install"
               /\ included_files_install[2 * i] = media[i][1]

C7_Witness ==
    /\ file_calls = << << "/etc/fstab", TRUE >>, << "/etc/fstab", FALSE >>,
                       << "/config.bootoptions", FALSE >> >>
    /\ included_files = << "--install", "/etc/fstab", "--install", "/etc/fstab",
                           "--install", "/config.bootoptions" >>
    /\ included_files_install = << "--install", "/etc/fstab" >>

(***************************************************************************)
(* Properties of the output format detector                                *)
(***************************************************************************)
AfterDetect == lastOp.op = "_get_dracut_output_file_format"

\* C9: the detector never raises; when the tool is not found, or is found
\* without a match of the outfile expression in its text, it logs a warning
\* and returns 'initramfs-{kernel_version}.img'.
C9_DetectorNeverRaises ==
    AfterDetect =>
        /\ raised = NoError
        /\ (~dracut_tool.found \/ ~FirstMatch(dracut_tool.text).found) =>
               /\ returned = "initramfs-{kernel_version}.img"
               /\ warnings # <<>>

\* an assignment outfile="/boot/<pattern>" stands at i and its closing quote
\* at c: the pattern holds no quote and no newline, and holds $kernel
AssignmentAt(text, i, c) ==
    /\ i + 4 <= c /\ c <= Len(text)
    /\ text[i] = "outfile=" /\ text[i + 1] = "\"" /\ text[i + 2] = "/boot/init"
    /\ text[c] = "\""
    /\ \A j \in (i + 3)..(c - 1) : text[j] # "\"" /\ text[j] # "\n"
    /\ \E k \in (i + 3)..(c - 1) : text[k] = "$kernel"

Assignments(text) ==
    { a \in (1..Len(text)) \X (1..Len(text)) : AssignmentAt(text, a[1], a[2]) }

\* C10: when the tool is found and its text holds such an assignment, the
\* detector returns the pattern of the first one with every $kernel
\* replaced by {kernel_version}, and logs no warning.
C10_ReturnsFirstPattern ==
    (AfterDetect /\ dracut_tool.found /\ Assignments(dracut_tool.text) # {}) =>
        LET text == dracut_tool.text
            first == CHOOSE a \in Assignments(text) :
                         \A b \in Assignments(text) : a[1] <= b[1]
        IN  /\ raised = NoError
            /\ returned =
                   ReplaceKernel(SubSeq(text, first[1] + 3, first[2] - 1))
            /\ warnings = <<>>

(***************************************************************************)
(* Properties of write_system_config_file                                  *)
(***************************************************************************)
\* the line of a directive for the list under key, or no line when config
\* has no such key or an empty list there
LineFor(config, key, directive) ==
    IF key \in DOMAIN config /\ Len(config[key]) > 0
    THEN << directive \o "+=\"" \o SpaceBefore(config[key]) \o " \"\n" >>
    ELSE <<>>

\* C11: write_system_config_file writes the add_dracutmodules line exactly
\* when config['modules'] is there and not empty, the omit_dracutmodules
\* line exactly when config['omit_modules'] is, the add line first; with
\* neither it opens and creates no file; it leaves the accumulator lists
\* as they were.
C11_ConfigFileLines ==
    [][ lastOp'.op = "write_system_config_file" =>
          LET config == lastOp'.config
              path == IF lastOp'.config_file = None
                      THEN "/build/boot-root/etc/dracut.conf.d/02-kiwi.conf"
                      ELSE lastOp'.config_file
              lines == LineFor(config, "modules", "add_dracutmodules")
                       \o LineFor(config, "omit_modules", "omit_dracutmodules")
          IN  /\ accumulators' = accumulators
              /\ IF lines = <<>>
                 THEN config_files' = config_files /\ events' = <<>>
                 ELSE /\ DOMAIN config_files' = DOMAIN config_files \cup {path}
                      /\ config_files'[path] = lines
                      /\ \A p \in DOMAIN config_files \ {path} :
                             config_files'[p] = config_files[p] ]_vars

C11_Witness ==
    /\ lastOp.op = "write_system_config_file"
    /\ dracut_options # <<>>
    /\ DOMAIN lastOp.config = {"modules", "omit_modules"}
    /\ "/tmp/kiwi-dracut.conf" \in DOMAIN config_files
    /\ config_files["/tmp/kiwi-dracut.conf"] =
           << "add_dracutmodules+=\" network kiwi-dump \"\n",
              "omit_dracutmodules+=\" network \"\n" >>

(***************************************************************************)
(* The two variants at build time                                          *)
(***************************************************************************)
\* the tokens that follow the flag in the command, in order
RECURSIVE ValuesOf(_, _)
ValuesOf(flag, command) ==
    IF Len(command) < 2 THEN <<>>
    ELSE IF Head(command) = flag
    THEN << command[2] >> \o ValuesOf(flag, Tail(Tail(command)))
    ELSE ValuesOf(flag, Tail(command))

\* the one value a non-empty set gives its flag
ValueFor(names) ==
    IF Len(names) = 0 THEN <<>> ELSE << SpaceBefore(names) \o " " >>

\* C13: the variants do not leak into each other.  The --add values, the
\* --omit values and the --install paths of the dracut command come from the
\* lists of the variant that is built (install_modules, omit_install_modules
\* and included_files_install for install_initrd=True, else modules,
\* omit_modules and included_files); a file or a set that only the other
\* variant has is not in the command; and the --install /.profile pair of
\* dracut_options is in the command of either variant.
C13_VariantsDoNotLeak ==
    (AfterCreate /\ is_prepared /\ lastOp.outcome # "no_kernel") =>
        LET command == command_log[1]
            install == [add |-> install_modules,
                        omit |-> omit_install_modules,
                        files |-> included_files_install]
            standard == [add |-> modules, omit |-> omit_modules,
                         files |-> included_files]
            own == IF lastOp.install_initrd THEN install ELSE standard
            other == IF lastOp.install_initrd THEN standard ELSE install
        IN  /\ ValuesOf("--add", command) = ValueFor(own.add)
            /\ ValuesOf("--omit", command) = ValueFor(own.omit)
            /\ ValuesOf("--install", command) =
                   ValuesOf("--install", dracut_options)
                   \o ValuesOf("--install", own.files)
            /\ other.add # own.add =>
                   ValuesOf("--add", command) # ValueFor(other.add)
            /\ other.omit # own.omit =>
                   ValuesOf("--omit", command) # ValueFor(other.omit)
            /\ LET paths == ValuesOf("--install", other.files)
               IN  \A i \in 1..Len(paths) :
                       ~In(paths[i], own.files) => ~In(paths[i], command)
            /\ \E i \in 1..(Len(command) - 1) :
                   command[i] = "--install" /\ command[i + 1] = "/.profile"
            /\ SubSeq(command, 8, 7 + Len(dracut_options)) = dracut_options

\* an install-media build on a builder whose standard variant alone has a
\* module and a file: neither is in the command
C13_Witness ==
    /\ AfterCreate /\ is_prepared /\ lastOp.install_initrd
    /\ lastOp.outcome = "ok" /\ Len(command_log) = 2
    /\ modules # <<>> /\ install_modules = <<>>
    /\ Len(included_files) = 2 /\ included_files_install = <<>>
    /\ ~In("--add", command_log[1])
    /\ ~In(included_files[2], command_log[1])
    /\ ValuesOf("--install", command_log[1]) = << "/.profile" >>

(***************************************************************************)
(* The frame of create_initrd                                              *)
(***************************************************************************)
\* C14: create_initrd leaves the seven accumulator lists as they were,
\* whether it succeeds, fails or is skipped.  Hence, in the state a
\* successful call leaves, the same call made again issues the same
\* commands and records the same initrd_filename.
C14_CreateKeepsAccumulators ==
    /\ [][ CreateStep =>
             /\ dracut_options' = dracut_options
             /\ included_files' = included_files
             /\ included_files_install' = included_files_install
             /\ modules' = modules
             /\ install_modules' = install_modules
             /\ omit_modules' = omit_modules
             /\ omit_install_modules' = omit_install_modules ]_vars
    /\ [](AfterCreate /\ is_prepared /\ lastOp.outcome = "ok" =>
            LET again == CreateInitrdRun(lastOp.basename,
                                         lastOp.install_initrd, "ok")
            IN  /\ again.commands = command_log
                /\ again.filename = initrd_filename
                /\ again.error = NoError)

\* a successful build on a builder with modules and files
C14_Witness ==
    /\ AfterCreate /\ is_prepared /\ lastOp.outcome = "ok"
    /\ ~lastOp.install_initrd
    /\ modules # <<>> /\ included_files # <<>>
    /\ Len(command_log) = 2 /\ Len(dracut_options) = 2
    /\ initrd_filename = "/build/target/kiwi-image.x86_64-1.0.0.initrd.xz"
    /\ CreateInitrdRun(lastOp.basename, FALSE, "ok").commands = command_log

(***************************************************************************)
(* Properties of get_boot_names                                            *)
(***************************************************************************)
\* C12: get_boot_names raises KiwiDiskBootImageError exactly when
\* get_kernel() finds no kernel, and then does not call the detector;
\* otherwise it returns the kernel's name and the detected template with
\* {kernel_version} replaced by the kernel's version.  It does so prepared
\* or not and changes neither the accumulator lists nor initrd_filename.
C12_BootNames ==
    [][ lastOp'.op = "get_boot_names" =>
          /\ accumulators' = accumulators
          /\ initrd_filename' = initrd_filename
          /\ (raised' = "KiwiDiskBootImageError") <=> ~lastOp'.has_kernel
          /\ ~lastOp'.has_kernel =>
                 ~In("_get_dracut_output_file_format", events')
          /\ lastOp'.has_kernel =>
                 /\ raised' = NoError
                 /\ returned'.kernel_name = "vmlinuz-5.14.21-default"
                 /\ returned'.initrd_name =
                        FormatKernelVersion(TemplateOf(dracut_tool),
                                            "5.14.21-default") ]_vars

(***************************************************************************)
(* Properties of Profile                                                   *)
(***************************************************************************)
\* the entries of the dictionary, as a function from its keys
Entries(items) ==
    [key \in { items[i][1] : i \in 1..Len(items) } |->
        (CHOOSE item \in { items[i] : i \in 1..Len(items) } :
             item[1] = key)[2]]

\* the line of an entry: none for None, False and the empty text
EntryLine(entries, key) ==
    IF key \notin DOMAIN entries THEN <<>>
    ELSE IF entries[key] = << "bool", "True" >>
    THEN << key \o "=true\n" >>
    ELSE IF entries[key][1] = "str" /\ entries[key][2] # ""
    THEN << key \o "=" \o entries[key][2] \o "\n" >>
    ELSE <<>>

\* C15: after any add and delete calls, create writes one key=value line
\* for each entry whose value is truthy and none for the others, in
\* ascending order of the keys, with True written as true, and leaves the
\* dictionary as it was.  add sets the entry of its key and delete removes
\* it; delete of a key that is not in the dictionary changes nothing, and
\* no delete raises.
C15_CreateWritesTruthyEntries ==
    [][ /\ lastOp'.op = "create" =>
              /\ profile_file' =
                     EntryLine(Entries(dot_profile), "kiwi_delete")
                     \o EntryLine(Entries(dot_profile), "kiwi_displayname")
                     \o EntryLine(Entries(dot_profile), "kiwi_iname")
              /\ dot_profile' = dot_profile
              /\ raised' = NoError
        /\ lastOp'.op = "add" =>
              /\ DOMAIN Entries(dot_profile') =
                     DOMAIN Entries(dot_profile) \cup {lastOp'.key}
              /\ \A key \in DOMAIN Entries(dot_profile') :
                     Entries(dot_profile')[key] =
                         IF key = lastOp'.key THEN lastOp'.value
                         ELSE Entries(dot_profile)[key]
        /\ lastOp'.op = "delete" =>
              /\ raised' = NoError
              /\ DOMAIN Entries(dot_profile') =
                     DOMAIN Entries(dot_profile) \ {lastOp'.key}
              /\ \A key \in DOMAIN Entries(dot_profile') :
                     Entries(dot_profile')[key] = Entries(dot_profile)[key]
              /\ lastOp'.key \notin DOMAIN Entries(dot_profile) =>
                     dot_profile' = dot_profile ]_vars

\* create on a dictionary whose keys were inserted in another order than
\* the sorted one, with a True, a text and a None value
C15_Witness ==
    /\ lastOp.op = "create"
    /\ dot_profile = << << "kiwi_iname", << "str", "LimeJeOS" >> >>,
                        << "kiwi_delete", << "bool", "True" >> >>,
                        << "kiwi_displayname", << "NoneType", "None" >> >> >>
    /\ profile_file = << "kiwi_delete=true\n", "kiwi_iname=LimeJeOS\n" >>

====
